---- MODULE Spec2Model ----
(***************************************************************************)
(* A model of scripts/apy_monitor.py: one process invocation (main) polls  *)
(* the yield API, selects the allow-listed pools, evaluates the threshold, *)
(* appends to the CSV log and overwrites the JSON snapshot.  An external   *)
(* scheduler starts one invocation after the other; the only state that    *)
(* survives an invocation is the two files.                                *)
(*                                                                         *)
(* Python values.  A JSON number or null in a numeric field is Num(n) or   *)
(* None.  A pool record is a function from the keys it holds to their      *)
(* values, so a key the upstream left out is not in its DOMAIN.  A dict    *)
(* that is iterated (target_data, pool_lookup) is the sequence of its      *)
(* items in insertion order.  Percentages are whole numbers.               *)
(***************************************************************************)
EXTENDS Integers, Sequences, FiniteSets, TLC

VARIABLES
    pc,                 \* where the invocation is: idle (no process), selected,
                        \* logged, returned, raised; select_call and select_done
                        \* in SpecSelect
    runs,               \* invocations started so far
    all_pools,          \* the argument of find_target_pools_data (SpecSelect)
    target_pools_data,  \* main's selection, a dict in insertion order
    logExists,          \* os.path.exists(LOG_FILE)
    logRows,            \* the lines of LOG_FILE
    snapExists,         \* os.path.exists(EXPORT_FILE)
    snapshot,           \* the dict held by EXPORT_FILE
    respKind,           \* history: what the upstream call of this run did
    fetchKind,          \* history: what fetch_all_pool_data did in this run
    fetchedIds,         \* history: the 'pool' values of the list it returned
    outcome,            \* history: the branch of main this run took
    raisedAt,           \* history: the call that raised, "none" when none did
    alerts,             \* history: pools for which this run printed ALERT
    evaluated,          \* history: pools whose threshold test this run executed
    attempted,          \* history: downstream steps this run reached
    batch,              \* history: the entries this run appended to the log
    stamps,             \* history: the clock reading of each run that appended
    history,            \* history: the batches appended so far, in order
    logBefore,          \* history: <<logExists, logRows>> when the run started
    snapBefore          \* history: <<snapExists, snapshot>> when the run started

vars == <<pc, runs, all_pools, target_pools_data, logExists, logRows, snapExists,
          snapshot, respKind, fetchKind, fetchedIds, outcome, raisedAt, alerts,
          evaluated, attempted, batch, stamps, history, logBefore, snapBefore>>

(***************************************************************************)
(* Bounds                                                                  *)
(***************************************************************************)
MaxRuns == 2
MaxFetch == 2
MaxClock == 1

(***************************************************************************)
(* Configuration                                                           *)
(***************************************************************************)
\* The first two of the eleven entries of the allow-list, in its order.
TARGET_POOL_IDS == <<"aave-v3-arbitrum-usdc", "aave-v3-polygon-usdc">>

\* The default, in percent; APY_THRESHOLD in the environment replaces it.
APY_THRESHOLD == 5

(***************************************************************************)
(* Python values                                                           *)
(***************************************************************************)
None == [none |-> TRUE, num |-> 0]

Num(n) == [none |-> FALSE, num |-> n]

\* dict.get(key) of a text field that is missing: Python's None.
NoneStr == "None"

\* dict.get(key, default)
Get(d, key, default) == IF key \in DOMAIN d THEN d[key] ELSE default

Range(s) == {s[i] : i \in 1..Len(s)}

EmptyDict == <<>>

DictKeys(d) == {d[i].key : i \in 1..Len(d)}

DictHas(d, k) == k \in DictKeys(d)

DictGet(d, k) == d[CHOOSE i \in 1..Len(d) : d[i].key = k].val

\* d[k] = v: a key already present keeps its place, a new one goes last.
DictPut(d, k, v) ==
    IF DictHas(d, k)
    THEN [i \in 1..Len(d) |-> IF d[i].key = k THEN [key |-> k, val |-> v] ELSE d[i]]
    ELSE Append(d, [key |-> k, val |-> v])

RECURSIVE Concat(_)
Concat(ss) == IF ss = <<>> THEN <<>> ELSE Head(ss) \o Concat(Tail(ss))

IsPrefix(s, t) == Len(s) <= Len(t) /\ SubSeq(t, 1, Len(s)) = s

(***************************************************************************)
(* Inputs: what the upstream can answer                                    *)
(***************************************************************************)
OtherPool == "x"

ChainOf(p) == IF p = TARGET_POOL_IDS[1] THEN "Arbitrum" ELSE "Polygon"

ProjectOf(p) == IF p = OtherPool THEN "other" ELSE "aave-v3"

\* shape "absent": the record has neither apy nor tvlUsd; "null": both are
\* null; "number": apy is n and tvlUsd is a number.
PoolRecord(p, shape, n) ==
    [k \in {"pool", "chain", "project"}
            \cup (IF shape = "absent" THEN {} ELSE {"apy", "tvlUsd"}) |->
        CASE k = "pool" -> p
          [] k = "chain" -> ChainOf(p)
          [] k = "project" -> ProjectOf(p)
          [] k = "apy" -> IF shape = "null" THEN None ELSE Num(n)
          [] OTHER -> IF shape = "null" THEN None ELSE Num(7)]

\* The numbers an allow-listed pool reports: the threshold itself.  A pool below
\* it is one that reports no apy, which the loop reads as 0.
ApyNumbers == {APY_THRESHOLD}

TargetRecords ==
    {PoolRecord(p, shape, 0) : p \in Range(TARGET_POOL_IDS), shape \in {"absent", "null"}}
        \cup {PoolRecord(p, "number", n) : p \in Range(TARGET_POOL_IDS), n \in ApyNumbers}

\* A pool that is not on the allow-list, with a yield above the threshold.
OtherRecord == PoolRecord(OtherPool, "number", APY_THRESHOLD + 4)

\* A record without a 'pool' key.
NamelessRecord == [chain |-> "Polygon", project |-> "aave-v3"]

FetchRecords == TargetRecords \cup {OtherRecord}

SeqsUpTo(S, n) == UNION {[1..m -> S] : m \in 0..n}

\* One id per record: pool ids are unique within one response.
UniqueIds(s) == \A i, j \in 1..Len(s) : i # j => s[i]["pool"] # s[j]["pool"]

FetchLists == {s \in SeqsUpTo(FetchRecords, MaxFetch) : UniqueIds(s)}

\* For the selection alone: ids may repeat and a record may have no id.
SelectInputs == SeqsUpTo(FetchRecords \cup {NamelessRecord}, MaxFetch)

FailureKinds ==
    {"network_error", "timeout", "http_error", "invalid_json", "json_not_object",
     "no_data_key", "data_null", "data_string"}

Responses ==
    {[kind |-> k, data |-> <<>>] : k \in FailureKinds}
        \cup {[kind |-> "data_list", data |-> s] : s \in FetchLists}

\* Whether the installed requests raises a RequestException subclass for a body
\* that is not JSON (2.27 and later do) or a plain ValueError.
JsonErrorChoices(resp) == IF resp.kind = "invalid_json" THEN BOOLEAN ELSE {TRUE}

(***************************************************************************)
(* fetch_all_pool_data                                                     *)
(***************************************************************************)
ListValue(s) == [t |-> "list", items |-> s]

NoneValue == [t |-> "none", items |-> <<>>]

\* A non-empty str: iterating it yields characters, which have no .get.
StrValue == [t |-> "str", items |-> <<>>]

Returned(v) == [raised |-> FALSE, value |-> v]

Raised == [raised |-> TRUE, value |-> NoneValue]

fetch_all_pool_data(resp, jsonErrorCaught) ==
    CASE resp.kind \in {"network_error", "timeout", "http_error"} -> Returned(ListValue(<<>>))
      [] resp.kind = "invalid_json" ->
            IF jsonErrorCaught THEN Returned(ListValue(<<>>)) ELSE Raised
      [] resp.kind = "json_not_object" -> Raised
      [] resp.kind = "no_data_key" -> Returned(ListValue(<<>>))
      [] resp.kind = "data_null" -> Returned(NoneValue)
      [] resp.kind = "data_string" -> Returned(StrValue)
      [] OTHER -> Returned(ListValue(resp.data))

\* bool(v)
Truthy(v) == CASE v.t = "list" -> v.items # <<>> [] v.t = "str" -> TRUE [] OTHER -> FALSE

(***************************************************************************)
(* find_target_pools_data                                                  *)
(***************************************************************************)
RECURSIVE pool_lookup(_)
pool_lookup(pools) ==
    IF pools = <<>> THEN EmptyDict
    ELSE LET n == Len(pools)
             pool == pools[n]
         IN DictPut(pool_lookup(SubSeq(pools, 1, n - 1)), Get(pool, "pool", NoneStr), pool)

RECURSIVE target_data_until_missing(_, _)
target_data_until_missing(lookup, ids) ==
    IF ids = <<>> \/ ~DictHas(lookup, Head(ids)) THEN EmptyDict
    ELSE <<[key |-> Head(ids), val |-> DictGet(lookup, Head(ids))]>>
            \o target_data_until_missing(lookup, Tail(ids))

\* The for loop over ids, an allow-list.
RECURSIVE target_data(_, _)
target_data(lookup, ids) ==
    IF ids = <<>> THEN EmptyDict
    ELSE LET n == Len(ids)
             pool_id == ids[n]
             rest == target_data(lookup, SubSeq(ids, 1, n - 1))
         IN IF DictHas(lookup, pool_id)
            THEN DictPut(rest, pool_id, DictGet(lookup, pool_id))
            ELSE rest

find_all_pools_data(pools) == pool_lookup(pools)

find_target_pools_data(pools) == target_data(pool_lookup(pools), TARGET_POOL_IDS)

(***************************************************************************)
(* log_and_check_pools                                                     *)
(***************************************************************************)
CsvHeader == [columns |-> <<"timestamp", "pool_id", "chain", "apy", "project", "tvlUsd">>]

row_time_ticking(current_time, i) == current_time + i - 1

\* 'timestamp': current_time, for the i-th item of the loop.
row_time(current_time, i) == current_time

new_entry(timestamp, pool_data, apy_value) ==
    [timestamp |-> timestamp,
     pool_id |-> Get(pool_data, "pool", NoneStr),
     chain |-> Get(pool_data, "chain", NoneStr),
     apy |-> apy_value,
     project |-> Get(pool_data, "project", NoneStr),
     tvlUsd |-> Get(pool_data, "tvlUsd", Num(0))]

apy_value_from_apyBase(pool_data) == Get(pool_data, "apyBase", Num(0))

\* apy_value = pool_data.get('apy', 0.0)
apy_value_of(pool_data) == Get(pool_data, "apy", Num(0))

\* apy_value >= APY_THRESHOLD, for a number.
AtThreshold(apy_value) == apy_value.num >= APY_THRESHOLD

LoopStart == [all_new_entries |-> <<>>, alerts |-> {}, evaluated |-> {}, raised |-> FALSE]

\* The for loop over pools_data.items(), from item i on.  Comparing None with a
\* float raises TypeError, which ends the loop and the function.
RECURSIVE check_loop(_, _, _, _)
check_loop(pools_data, i, current_time, acc) ==
    IF i > Len(pools_data) THEN acc
    ELSE LET pool_id == pools_data[i].key
             pool_data == pools_data[i].val
             apy_value == apy_value_of(pool_data)
             entries == Append(acc.all_new_entries,
                               new_entry(row_time(current_time, i), pool_data, apy_value))
         IN IF apy_value.none
            THEN [acc EXCEPT !.all_new_entries = entries, !.raised = TRUE]
            ELSE check_loop(pools_data, i + 1, current_time,
                    [acc EXCEPT !.all_new_entries = entries,
                                !.evaluated = @ \cup {pool_id},
                                !.alerts = IF AtThreshold(apy_value)
                                           THEN @ \cup {pool_id} ELSE @])

AlwaysHeader(file_exists) == TRUE

\* header=not file_exists
WriteHeader(file_exists) == ~file_exists

\* new_df.to_csv(LOG_FILE, mode='a', header=..., index=False)
to_csv(rows, entries, header) ==
    rows \o (IF header THEN <<CsvHeader>> ELSE <<>>) \o entries

\* current_time is datetime.now(): the local wall clock, which may step back
\* between two invocations.  written: whether LOG_FILE could be opened; when
\* it could not, to_csv raises OSError and the file is as it was.
log_and_check_pools(current_time, written) ==
    /\ pc = "selected"
    /\ LET r == check_loop(target_pools_data, 1, current_time, LoopStart)
           logs == ~r.raised /\ r.all_new_entries # <<>>
       IN /\ alerts' = r.alerts
          /\ evaluated' = r.evaluated
          /\ attempted' = {"evaluate"} \cup (IF logs THEN {"record"} ELSE {})
          /\ IF logs /\ written
             THEN /\ logRows' = to_csv(logRows, r.all_new_entries, WriteHeader(logExists))
                  /\ logExists' = TRUE
                  /\ batch' = r.all_new_entries
                  /\ stamps' = Append(stamps, current_time)
                  /\ history' = Append(history, r.all_new_entries)
             ELSE UNCHANGED <<logRows, logExists, batch, stamps, history>>
          /\ raisedAt' = CASE r.raised -> "evaluate"
                           [] logs /\ ~written -> "to_csv"
                           [] OTHER -> "none"
          /\ pc' = IF raisedAt' = "none" THEN "logged" ELSE "raised"
    /\ UNCHANGED <<runs, all_pools, target_pools_data, snapExists, snapshot, respKind,
                   fetchKind, fetchedIds, outcome, logBefore, snapBefore>>

(***************************************************************************)
(* export_latest_data                                                      *)
(***************************************************************************)
RECURSIVE json_dump_update(_)
json_dump_update(pools_data) ==
    IF pools_data = <<>> THEN snapshot
    ELSE LET n == Len(pools_data)
         IN DictPut(json_dump_update(SubSeq(pools_data, 1, n - 1)),
                    pools_data[n].key, pools_data[n].val)

\* json.dump(pools_data, f, indent=4) into the file opened with 'w'
json_dump(pools_data) == pools_data

\* written: whether EXPORT_FILE could be opened; when it could not, open
\* raises OSError and the file is as it was.
export_latest_data(written) ==
    /\ pc = "logged"
    /\ attempted' = attempted \cup {"snapshot"}
    /\ IF target_pools_data # EmptyDict /\ written
       THEN /\ snapshot' = json_dump(target_pools_data)
            /\ snapExists' = TRUE
       ELSE UNCHANGED <<snapshot, snapExists>>
    /\ raisedAt' = IF target_pools_data # EmptyDict /\ ~written THEN "open" ELSE "none"
    /\ pc' = IF raisedAt' = "none" THEN "returned" ELSE "raised"
    /\ UNCHANGED <<runs, all_pools, target_pools_data, logExists, logRows, respKind,
                   fetchKind, fetchedIds, outcome, alerts, evaluated, batch, stamps,
                   history, logBefore, snapBefore>>

(***************************************************************************)
(* main                                                                    *)
(***************************************************************************)
\* What fetch_all_pool_data did, for the history.
FetchKindOf(f) ==
    CASE f.raised -> "raised"
      [] f.value.t = "list" /\ f.value.items = <<>> -> "empty_list"
      [] OTHER -> f.value.t

\* The branch main takes on the fetch result f and the selection found.
\* Iterating a str in find_target_pools_data raises AttributeError at its
\* first character.
main_branch(f, found) ==
    CASE f.raised -> "fetch_raised"
      [] ~Truthy(f.value) -> "no_data"
      [] f.value.t # "list" -> "select_raised"
      [] found = EmptyDict -> "no_targets"
      [] OTHER -> "selected"

\* A new invocation, up to the selection: setup_directories (the directories
\* can be made), the fetch, the test of its result and find_target_pools_data.
\* all_pools is local to main and dead once the selection is made; it is not
\* kept in the state.
main_start(resp, jsonErrorCaught) ==
    /\ pc = "idle"
    /\ runs < MaxRuns
    /\ runs' = runs + 1
    /\ LET f == fetch_all_pool_data(resp, jsonErrorCaught)
           isList == ~f.raised /\ f.value.t = "list"
           found == IF isList THEN find_target_pools_data(f.value.items) ELSE EmptyDict
       IN /\ respKind' = resp.kind
          /\ fetchKind' = FetchKindOf(f)
          /\ fetchedIds' = IF isList
                           THEN {Get(f.value.items[i], "pool", NoneStr) :
                                    i \in 1..Len(f.value.items)}
                           ELSE {}
          /\ outcome' = main_branch(f, found)
          /\ target_pools_data' = IF outcome' = "selected" THEN found ELSE EmptyDict
          /\ raisedAt' = CASE outcome' = "fetch_raised" -> "fetch"
                           [] outcome' = "select_raised" -> "select"
                           [] OTHER -> "none"
          /\ pc' = CASE raisedAt' # "none" -> "raised"
                     [] outcome' \in {"no_data", "no_targets"} -> "returned"
                     [] OTHER -> "selected"
    /\ logBefore' = <<logExists, logRows>>
    /\ snapBefore' = <<snapExists, snapshot>>
    /\ UNCHANGED <<all_pools, logExists, logRows, snapExists, snapshot, alerts,
                   evaluated, attempted, batch, stamps, history>>

\* The process ends, by return or by the uncaught exception; only the two
\* files outlive it.
process_exit ==
    /\ pc \in {"returned", "raised"}
    /\ pc' = "idle"
    /\ target_pools_data' = EmptyDict
    /\ respKind' = "n/a"
    /\ fetchKind' = "n/a"
    /\ fetchedIds' = {}
    /\ outcome' = "n/a"
    /\ raisedAt' = "none"
    /\ alerts' = {}
    /\ evaluated' = {}
    /\ attempted' = {}
    /\ batch' = <<>>
    /\ logBefore' = <<logExists, logRows>>
    /\ snapBefore' = <<snapExists, snapshot>>
    /\ UNCHANGED <<runs, all_pools, logExists, logRows, snapExists, snapshot, stamps,
                   history>>

NoRun ==
    /\ runs = 0
    /\ logExists = FALSE
    /\ logRows = <<>>
    /\ snapExists = FALSE
    /\ snapshot = EmptyDict
    /\ respKind = "n/a"
    /\ fetchKind = "n/a"
    /\ fetchedIds = {}
    /\ outcome = "n/a"
    /\ raisedAt = "none"
    /\ alerts = {}
    /\ evaluated = {}
    /\ attempted = {}
    /\ batch = <<>>
    /\ stamps = <<>>
    /\ history = <<>>
    /\ logBefore = <<FALSE, <<>>>>
    /\ snapBefore = <<FALSE, EmptyDict>>

\* Neither file exists yet.
Init ==
    /\ pc = "idle"
    /\ all_pools = <<>>
    /\ target_pools_data = EmptyDict
    /\ NoRun

Next ==
    \/ \E resp \in Responses : \E jsonErrorCaught \in JsonErrorChoices(resp) :
            main_start(resp, jsonErrorCaught)
    \/ \E current_time \in 0..MaxClock, written \in BOOLEAN :
            log_and_check_pools(current_time, written)
    \/ \E written \in BOOLEAN : export_latest_data(written)
    \/ process_exit

Spec == Init /\ [][Next]_vars

(***************************************************************************)
(* find_target_pools_data on its own                                       *)
(***************************************************************************)
InitSelect ==
    /\ pc = "select_call"
    /\ all_pools \in SelectInputs
    /\ target_pools_data = EmptyDict
    /\ NoRun

select_call ==
    /\ pc = "select_call"
    /\ target_pools_data' = find_target_pools_data(all_pools)
    /\ pc' = "select_done"
    /\ UNCHANGED <<runs, all_pools, logExists, logRows, snapExists, snapshot, respKind,
                   fetchKind, fetchedIds, outcome, raisedAt, alerts, evaluated,
                   attempted, batch, stamps, history, logBefore, snapBefore>>

NextSelect == select_call

SpecSelect == InitSelect /\ [][NextSelect]_vars

(***************************************************************************)
(* Properties                                                              *)
(***************************************************************************)
TargetIds == Range(TARGET_POOL_IDS)

\* The invocation has ended, by return or by an uncaught exception.
Ended == pc \in {"returned", "raised"}

\* The invocation selected pools and returned from main.
Completed == pc = "returned" /\ outcome = "selected"

\* Some fetched record has id as its 'pool' field.
Fetched(pools, id) ==
    \E i \in 1..Len(pools) : "pool" \in DOMAIN pools[i] /\ pools[i]["pool"] = id

\* The number a record supplies under key: 0.0 when the key is missing or null.
Supplied(rec, key) ==
    IF key \in DOMAIN rec /\ ~rec[key].none THEN rec[key] ELSE Num(0)

\* The rows describe the selection the dict holds: same pool ids, same apy.
Agree(rows, dict) ==
    /\ {rows[i].pool_id : i \in 1..Len(rows)} = DictKeys(dict)
    /\ \A i \in 1..Len(rows) :
          DictHas(dict, rows[i].pool_id)
              => rows[i].apy = Supplied(DictGet(dict, rows[i].pool_id), "apy")

LastBatch == IF history = <<>> THEN <<>> ELSE history[Len(history)]

StampsNonDecreasing == \A i, j \in 1..Len(stamps) : i < j => stamps[i] <= stamps[j]

\* C1: the output of find_target_pools_data has an allow-listed id as a key
\* iff some fetched record carries that id; the value under it is a fetched
\* record with that id, unchanged (the last one when the id repeats); no key
\* is outside the allow-list or held twice; and the output is the one the
\* allow-list without the ids that were not fetched gives.
C1_AllowListSelection ==
    pc = "select_done" =>
        LET out == target_pools_data
            IsFetched(id) == Fetched(all_pools, id)
        IN /\ \A id \in TargetIds : DictHas(out, id) <=> IsFetched(id)
           /\ \A id \in TargetIds :
                 DictHas(out, id) =>
                    \E i \in 1..Len(all_pools) :
                       /\ all_pools[i] = DictGet(out, id)
                       /\ all_pools[i]["pool"] = id
                       /\ \A j \in (i + 1)..Len(all_pools) : ~Fetched(<<all_pools[j]>>, id)
           /\ DictKeys(out) \subseteq TargetIds
           /\ Cardinality(DictKeys(out)) = Len(out)
           /\ out = target_data(pool_lookup(all_pools), SelectSeq(TARGET_POOL_IDS, IsFetched))

\* C1's case: one allow-listed id is fetched twice, the other is not fetched.
C1_Witness ==
    /\ pc = "select_done"
    /\ Len(all_pools) = 2
    /\ all_pools[1] # all_pools[2]
    /\ Fetched(<<all_pools[1]>>, TARGET_POOL_IDS[2])
    /\ Fetched(<<all_pools[2]>>, TARGET_POOL_IDS[2])
    /\ DictKeys(target_pools_data) = {TARGET_POOL_IDS[2]}

\* C2: starting without a log file, the log is at all times one header row
\* followed by the rows of every batch appended so far, in append order (N
\* batches of k rows make N*k data rows), and the rows that were there when a
\* run started are a prefix of the log throughout the run.
C2_OneHeaderThenRowsInAppendOrder ==
    /\ ~logExists => logRows = <<>> /\ history = <<>>
    /\ logExists =>
          /\ logRows = <<CsvHeader>> \o Concat(history)
          /\ \A i \in 2..Len(logRows) : logRows[i] # CsvHeader
    /\ \A k \in 0..Len(TARGET_POOL_IDS) :
          (\A i \in 1..Len(history) : Len(history[i]) = k)
              => Len(logRows) = (IF logExists THEN 1 ELSE 0) + Len(history) * k
    /\ IsPrefix(logBefore[2], logRows)
    /\ logBefore[1] => logExists

\* C2's case: two runs have each appended two rows.
C2_Witness ==
    /\ Len(history) = 2
    /\ Len(history[1]) = 2
    /\ Len(history[2]) = 2
    /\ Len(logRows) = 5
    /\ pc = "returned"

\* C3: a run whose fetch result is empty, or whose fetched list holds none of
\* the allow-listed ids, returns from main without raising, with both files as
\* they were when it started, no threshold test executed and no alert.
C3_AbortedRunChangesNothing ==
    (/\ pc # "idle"
     /\ \/ fetchKind \in {"empty_list", "none"}
        \/ fetchKind = "list" /\ fetchedIds \cap TargetIds = {})
        => /\ pc = "returned"
           /\ <<logExists, logRows>> = logBefore
           /\ <<snapExists, snapshot>> = snapBefore
           /\ alerts = {}
           /\ evaluated = {}
           /\ attempted = {}

\* C3's case: after a run that wrote both files, a run fetches only a pool
\* that is not allow-listed and aborts.
C3_Witness ==
    /\ pc = "returned"
    /\ outcome = "no_targets"
    /\ fetchedIds = {OtherPool}
    /\ logBefore[1]
    /\ snapBefore[1]

\* C4: when a run with a selection has ended, each selected pool has alerted
\* iff its apy is a number at or above the threshold, whatever the other pools
\* of the run are.
C4_AlertIffAtThreshold ==
    (Ended /\ outcome = "selected") =>
        \A i \in 1..Len(target_pools_data) :
            target_pools_data[i].key \in alerts
                <=> Supplied(target_pools_data[i].val, "apy").num >= APY_THRESHOLD

C6_FetchNeverRaises ==
    (pc # "idle" /\ respKind \in FailureKinds \ {"invalid_json"})
        => fetchKind # "raised" /\ outcome = "no_data"

\* C7: a run with a selection ends only after threshold evaluation of every
\* selected pool, recording and snapshotting have all been reached (stated
\* for the runs in which both files could be opened).
C7_AllStepsBeforeDone ==
    (Ended /\ outcome = "selected" /\ raisedAt \notin {"to_csv", "open"})
        => /\ attempted = {"evaluate", "record", "snapshot"}
           /\ evaluated = DictKeys(target_pools_data)

\* C8: a run with a selection appends one entry per selected pool, carrying
\* the pool's own id, chain and project, and its apy and tvl with 0.0 for one
\* the upstream did not supply (stated for the runs in which both files could
\* be opened).
C8_OneEntryPerSelectedPool ==
    (Ended /\ outcome = "selected" /\ raisedAt \notin {"to_csv", "open"})
        => /\ Len(batch) = Len(target_pools_data)
           /\ \A i \in 1..Len(batch) :
                 LET rec == target_pools_data[i].val
                 IN /\ batch[i].pool_id = target_pools_data[i].key
                    /\ batch[i].chain = rec["chain"]
                    /\ batch[i].project = rec["project"]
                    /\ batch[i].apy = Supplied(rec, "apy")
                    /\ batch[i].tvlUsd = Supplied(rec, "tvlUsd")

\* C9 as stated: row timestamps are non-decreasing in log order.
C9_TimestampsNonDecreasing ==
    \A i, j \in 2..Len(logRows) : i < j => logRows[i].timestamp <= logRows[j].timestamp

\* C9 amended: every row a run appends carries the one clock reading of that
\* run, so the timestamps are non-decreasing in log order exactly when the
\* clock readings of the runs that appended are.
C9_OneClockReadingPerRun ==
    /\ Len(stamps) = Len(history)
    /\ \A i \in 1..Len(history) :
          \A j \in 1..Len(history[i]) : history[i][j].timestamp = stamps[i]
    /\ logExists => SubSeq(logRows, 2, Len(logRows)) = Concat(history)
    /\ C9_TimestampsNonDecreasing <=> StampsNonDecreasing

\* C9's case: a run appended two rows and a later run read an earlier clock.
C9_Witness ==
    /\ Len(history) = 2
    /\ Len(history[1]) = 2
    /\ stamps[2] < stamps[1]

\* C10 as stated: whenever no run is under way, the last batch of rows in the
\* log and the snapshot describe the same selection.
C10_LogAndSnapshotAlwaysAgree ==
    pc \in {"idle", "returned", "raised"} => Agree(LastBatch, snapshot)

\* C10 amended: after a run that selects pools and returns from main, the
\* rows it appended and the snapshot it wrote agree; a run that ends before
\* its log write changes neither file; a run that ends because the snapshot
\* file cannot be opened has appended its rows and left the snapshot as it was.
C10_CompletedRunsAgree ==
    /\ Completed => batch # <<>> /\ batch = LastBatch /\ Agree(batch, snapshot)
    /\ (Ended /\ ~Completed) => <<snapExists, snapshot>> = snapBefore
    /\ (Ended /\ ~Completed /\ raisedAt # "open") => <<logExists, logRows>> = logBefore
    /\ (Ended /\ raisedAt = "open") => batch # <<>> /\ logRows # logBefore[2]

\* C10's case: a completed run of two pools, one of which reports no apy.
C10_Witness ==
    /\ Completed
    /\ Len(batch) = 2
    /\ \E i \in 1..2 : "apy" \notin DOMAIN target_pools_data[i].val
    /\ \E i \in 1..2 : "apy" \in DOMAIN target_pools_data[i].val

====
